---- MODULE Spec2Model ----
(***************************************************************************)
(* A model of kuma/core/middleware.py: the request and response hooks of   *)
(* the kuma middleware classes, each as an action over an HTTP request and *)
(* response object.  Text that the code parses or rewrites (header values, *)
(* paths, query strings) is a sequence of one-character strings.           *)
(***************************************************************************)
EXTENDS Integers, Sequences, FiniteSets, TLC

VARIABLES
    request,        \* the HttpRequest handed to the hook
    response,       \* the HttpResponse object (hooks change it in place)
    result,         \* what the hook returned
    entry,          \* the value of the argument when the hook was entered
    pc,             \* where the handling of the request stands
    calls,          \* the hooks that have run so far, in order
    settings,       \* django.conf.settings
    url_prefixer,   \* the thread-local of set_url_prefixer
    translation     \* the thread-local active translation

vars == <<request, response, result, entry, pc, calls, settings, url_prefixer, translation>>

\* Python's None, as a value that compares with the objects of the model.
None == [cls |-> "NoneType"]

\* None where the code compares it with text.
Absent == <<"None">>

\* No translation has been activated on the thread yet.
NoTranslation == <<"None">>

\* The settings the middleware reads.
Settings ==
    [LANGUAGES |-> {<<"en-US">>, <<"fr">>},
     LANGUAGE_CODE |-> <<"en-US">>,
     LANGUAGE_URL_MAP |-> [l \in {<<"en-us">>, <<"fr">>} |->
                              IF l = <<"fr">> THEN <<"fr">> ELSE <<"en-US">>],
     LANGUAGE_URL_IGNORED_PATHS |-> {<<"media">>},
     LEGACY_HOSTS |-> {"developer.mozilla.com"},
     SITE_URL |-> [scheme |-> "https", netloc |-> <<"developer.mozilla.org">>],
     ATTACHMENT_HOST |-> "mdn.mozillademos.org",
     ENABLE_RESTRICTIONS_BY_HOST |-> TRUE]

(***************************************************************************)
(* Text helpers                                                            *)
(***************************************************************************)

\* Characters that the regular expression class \w matches.
WordChars == {"a", "b", "g", "i", "o", "p", "q", "r", "z", "1"}

RECURSIVE Flatten(_)
\* The concatenation of a sequence of strings (each a sequence of characters).
Flatten(parts) ==
    IF parts = <<>> THEN <<>> ELSE Head(parts) \o Flatten(Tail(parts))

\* All sequences over S of length at most n.
SeqUpTo(S, n) == UNION {[1..k -> S] : k \in 0..n}

Digits == <<"0", "1", "2", "3", "4", "5", "6", "7", "8", "9">>

RECURSIVE str(_)
\* Python str() of a non-negative integer: its decimal digits.
str(n) ==
    IF n < 10 THEN <<Digits[n + 1]>>
    ELSE str(n \div 10) \o <<Digits[(n % 10) + 1]>>

\* re.compile(r'\b<word>\b').search(s), for a word made of \w characters.
re_search_word(word, s) ==
    \E i \in 1..(Len(s) - Len(word) + 1) :
        /\ SubSeq(s, i, i + Len(word) - 1) = word
        /\ (i = 1 \/ s[i - 1] \notin WordChars)
        /\ (i + Len(word) > Len(s) \/ s[i + Len(word)] \notin WordChars)

\* s[:-1]
ButLast(s) == SubSeq(s, 1, Len(s) - 1)

\* s.endswith(c), for one character c
endswith(s, c) == s # <<>> /\ s[Len(s)] = c

RECURSIVE lstrip(_, _)
\* s.lstrip(c)
lstrip(s, c) == IF s # <<>> /\ Head(s) = c THEN lstrip(Tail(s), c) ELSE s

\* The index of the first character of s that is in seps, or 0.
find(s, seps) ==
    IF \E i \in 1..Len(s) : s[i] \in seps
    THEN CHOOSE i \in 1..Len(s) : s[i] \in seps /\ \A j \in 1..(i - 1) : s[j] \notin seps
    ELSE 0

\* s.partition(c): what is before the first c and what is after it.
partition(s, c) ==
    LET i == find(s, {c})
    IN  IF i = 0 THEN [first |-> s, rest |-> <<>>]
        ELSE [first |-> SubSeq(s, 1, i - 1), rest |-> SubSeq(s, i + 1, Len(s))]

RECURSIVE split(_, _)
\* The pieces of s between the characters of seps.
split(s, seps) ==
    LET i == find(s, seps)
    IN  IF i = 0 THEN <<s>>
        ELSE <<SubSeq(s, 1, i - 1)>> \o split(SubSeq(s, i + 1, Len(s)), seps)

\* The character that stands for a letter outside ASCII, and its UTF-8
\* percent-encoding.
NonAscii == "U+00E9"
PercentEncoded == "%C3%A9"

\* django.utils.encoding.iri_to_uri: percent-encodes what is not ASCII and
\* leaves the reserved characters and % alone.
iri_to_uri(iri) ==
    [i \in 1..Len(iri) |-> IF iri[i] = NonAscii THEN PercentEncoded ELSE iri[i]]

\* urllib.quote(s.encode('utf-8')) of a path.
quote(s) ==
    [i \in 1..Len(s) |-> IF s[i] = NonAscii THEN PercentEncoded ELSE s[i]]

\* The path a server decodes from the request line.
unquote(s) ==
    [i \in 1..Len(s) |-> IF s[i] = PercentEncoded THEN NonAscii ELSE s[i]]

\* django.http.QueryDict(query_string): the (name, value) pairs of the
\* string, in order; empty pieces are skipped and blank values kept.
QueryDict(query_string) ==
    LET pieces == SelectSeq(split(query_string, {"&", ";"}), LAMBDA piece : piece # <<>>)
    IN  [i \in 1..Len(pieces) |->
            LET nv == partition(pieces[i], "=")
            IN  <<unquote(nv.first), unquote(nv.rest)>>]

(***************************************************************************)
(* Response headers: a function from the lower-cased header name to the    *)
(* value; a header is present when its name is in the domain.              *)
(***************************************************************************)

has_header(resp, name) == name \in DOMAIN resp.headers

set_header(resp, name, value) ==
    [resp EXCEPT !.headers = (name :> value) @@ resp.headers]

del_header(resp, name) ==
    [resp EXCEPT !.headers = [h \in (DOMAIN resp.headers) \ {name} |-> resp.headers[h]]]

\* Lower-casing of the header names and language codes of the model.
lower(token) ==
    CASE token = "Accept-Encoding" -> "accept-encoding"
      [] token = "en-US" -> "en-us"
      [] token = "Accept-Language" -> "accept-language"
      [] token = "Cookie" -> "cookie"
      [] OTHER -> token

\* django.utils.cache.patch_vary_headers: the Vary header is a sequence of
\* header names; a new name is appended unless it is there in any letter case.
patch_vary_headers(resp, newheaders) ==
    LET vary_headers == IF has_header(resp, "vary") THEN resp.headers["vary"] ELSE <<>>
        existing_headers == {lower(vary_headers[i]) : i \in 1..Len(vary_headers)}
        additional_headers ==
            SelectSeq(newheaders, LAMBDA h : lower(h) \notin existing_headers)
    IN  set_header(resp, "vary", vary_headers \o additional_headers)

(***************************************************************************)
(* Bodies.  A body is its payload, the codings the hooks of the model have  *)
(* applied to it, its length and the length the compressor gives for it.   *)
(***************************************************************************)

MIN_LEN_RESPONSE_TO_PROCESS == 200

\* How far around the 200-byte threshold the body lengths of the model range.
Slack == 1

\* How many pieces an Accept-Encoding header of the model has at most.
MaxAtoms == 2

\* How many times in a row a response hook is applied to one response.
MaxCalls == 2

Lens == (MIN_LEN_RESPONSE_TO_PROCESS - Slack)..(MIN_LEN_RESPONSE_TO_PROCESS + Slack)

Contents ==
    [data : {"page"}, codings : {<<>>}, len : Lens, packed : Lens]

\* The output of a compressor on content: packed bytes long; next is the
\* length the compressor would give for that output in turn.
compress(content, coding, next) ==
    [data |-> content.data, codings |-> Append(content.codings, coding),
     len |-> content.packed, packed |-> next]

AcceptAtoms == {<<"b", "r">>, <<"g", "z", "i", "p">>, <<"o">>, <<",">>}

AcceptEncodings == {Flatten(a) : a \in SeqUpTo(AcceptAtoms, MaxAtoms)}

(***************************************************************************)
(* BrotliMiddleware                                                        *)
(***************************************************************************)

RE_ACCEPT_ENCODING_BROTLI == <<"b", "r">>

_accepts_brotli_encoding_substring(req) ==
    \E i \in 1..(Len(req.HTTP_ACCEPT_ENCODING) - 1) :
        SubSeq(req.HTTP_ACCEPT_ENCODING, i, i + 1) = RE_ACCEPT_ENCODING_BROTLI

_accepts_brotli_encoding(req) ==
    re_search_word(RE_ACCEPT_ENCODING_BROTLI, req.HTTP_ACCEPT_ENCODING)

\* BrotliMiddleware_response without the test that compression helped.
BrotliMiddleware_response_always(req, resp, next) ==
    IF \/ resp.streaming
       \/ has_header(resp, "content-encoding")
       \/ ~_accepts_brotli_encoding(req)
       \/ resp.content.len < MIN_LEN_RESPONSE_TO_PROCESS
    THEN resp
    ELSE LET compressed_content == compress(resp.content, "br", next)
             r1 == [resp EXCEPT !.content = compressed_content]
             r2 == patch_vary_headers(r1, <<"Accept-Encoding">>)
             r3 == set_header(r2, "content-length", str(compressed_content.len))
         IN  set_header(r3, "content-encoding", "br")

\* The response object when BrotliMiddleware.process_response returns.
BrotliMiddleware_response(req, resp, next) ==
    IF \/ resp.streaming
       \/ has_header(resp, "content-encoding")
       \/ ~_accepts_brotli_encoding(req)
       \/ resp.content.len < MIN_LEN_RESPONSE_TO_PROCESS
    THEN resp
    ELSE LET compressed_content == compress(resp.content, "br", next)
         IN  IF compressed_content.len >= resp.content.len
             THEN resp
             ELSE LET r1 == [resp EXCEPT !.content = compressed_content]
                      r2 == patch_vary_headers(r1, <<"Accept-Encoding">>)
                      r3 == set_header(r2, "content-length", str(compressed_content.len))
                  IN  set_header(r3, "content-encoding", "br")

BrotliMiddleware_process_response ==
    /\ pc = "brotli"
    /\ Len(calls) < MaxCalls
    /\ \E next \in Lens :
        /\ response' = BrotliMiddleware_response(request, response, next)
        /\ result' = response'
    /\ entry' = response
    /\ calls' = Append(calls, "BrotliMiddleware")
    /\ UNCHANGED <<request, pc, settings, url_prefixer, translation>>

BrotliRequests == [HTTP_ACCEPT_ENCODING : AcceptEncodings]

Quote == "\""

ETagValues ==
    { <<Quote, "a", Quote>>, <<"W", "/", Quote, "a", Quote>>, <<"a">>, <<>> }

\* The headers a response may carry on entry: any of Content-Encoding, Vary,
\* ETag and Content-Length (of the body's length).  "" and <<>> stand for a
\* header that is absent; an ETag that is present is wrapped in a tuple.
EntryHeaders(content, encodings, varys, etags, lengths) ==
    {  (IF ce = "" THEN <<>> ELSE ("content-encoding" :> ce))
    @@ (IF vy = <<>> THEN <<>> ELSE ("vary" :> vy))
    @@ (IF et = <<>> THEN <<>> ELSE ("etag" :> et[1]))
    @@ (IF cl THEN ("content-length" :> str(content.len)) ELSE <<>>)
       : ce \in encodings, vy \in varys, et \in etags, cl \in lengths }

BrotliResponses ==
    UNION { [streaming : BOOLEAN,
             headers : EntryHeaders(c, {"", "gzip", "br"},
                                    {<<>>, <<"Cookie">>, <<"accept-encoding">>,
                                     <<"Accept-Encoding", "Cookie">>},
                                    {<<>>}, BOOLEAN),
             content : {c}]
            : c \in Contents }

InitBrotli ==
    /\ pc = "brotli"
    /\ request \in BrotliRequests
    /\ response \in BrotliResponses
    /\ entry = response
    /\ result = response
    /\ calls = <<>>
    /\ settings = Settings
    /\ url_prefixer = None
    /\ translation = NoTranslation

NextBrotli == BrotliMiddleware_process_response

SpecBrotli == InitBrotli /\ [][NextBrotli]_vars

(***************************************************************************)
(* GZipMiddleware                                                          *)
(***************************************************************************)

re_accepts_gzip == <<"g", "z", "i", "p">>

\* re.sub('"$', ';gzip"', etag)
etag_gzip(etag) ==
    IF etag # <<>> /\ etag[Len(etag)] = Quote
    THEN SubSeq(etag, 1, Len(etag) - 1) \o <<";", "g", "z", "i", "p", Quote>>
    ELSE etag

\* django.middleware.gzip.GZipMiddleware.process_response, which the override
\* calls through super().
django_GZipMiddleware_response(req, resp, next) ==
    IF ~resp.streaming /\ resp.content.len < 200 THEN resp
    ELSE IF has_header(resp, "content-encoding") THEN resp
    ELSE LET varied == patch_vary_headers(resp, <<"Accept-Encoding">>)
         IN  IF ~re_search_word(re_accepts_gzip, req.HTTP_ACCEPT_ENCODING) THEN varied
             ELSE LET compressed_content == compress(varied.content, "gzip", next)
                      tagged(r) ==
                          set_header(
                              IF has_header(r, "etag")
                              THEN set_header(r, "etag", etag_gzip(r.headers["etag"]))
                              ELSE r,
                              "content-encoding", "gzip")
                  IN  IF varied.streaming
                      THEN tagged(del_header(
                               [varied EXCEPT !.content = compressed_content],
                               "content-length"))
                      ELSE IF compressed_content.len >= varied.content.len THEN varied
                      ELSE tagged(set_header(
                               [varied EXCEPT !.content = compressed_content],
                               "content-length", str(compressed_content.len)))

\* The override without the two lines that put the ETag back.
GZipMiddleware_response_super(req, resp, next) ==
    django_GZipMiddleware_response(req, resp, next)

\* The response object when GZipMiddleware.process_response returns.
GZipMiddleware_response(req, resp, next) ==
    LET response_out == django_GZipMiddleware_response(req, resp, next)
    IN  IF has_header(resp, "etag") /\ has_header(response_out, "etag")
        THEN set_header(response_out, "etag", resp.headers["etag"])
        ELSE response_out

GZipMiddleware_process_response ==
    /\ pc = "gzip"
    /\ calls = <<>>
    /\ \E next \in Lens :
        /\ response' = GZipMiddleware_response(request, response, next)
        /\ result' = response'
    /\ entry' = response
    /\ calls' = Append(calls, "GZipMiddleware")
    /\ UNCHANGED <<request, pc, settings, url_prefixer, translation>>

GZipResponses ==
    UNION { [streaming : BOOLEAN,
             headers : EntryHeaders(c, {"", "br"}, {<<>>, <<"Cookie">>},
                                    {<<>>} \cup {<<e>> : e \in ETagValues}, {TRUE}),
             content : {c}]
            : c \in Contents }

InitGZip ==
    /\ pc = "gzip"
    /\ request \in BrotliRequests
    /\ response \in GZipResponses
    /\ entry = response
    /\ result = response
    /\ calls = <<>>
    /\ settings = Settings
    /\ url_prefixer = None
    /\ translation = NoTranslation

NextGZip == GZipMiddleware_process_response

SpecGZip == InitGZip /\ [][NextGZip]_vars

(***************************************************************************)
(* Responses other than the compressed ones                                *)
(***************************************************************************)

HttpResponse(cls, status, content) ==
    [cls |-> cls, status_code |-> status, headers |-> <<>>, content |-> content]

\* django.http.HttpResponseRedirect: 302, Location is iri_to_uri(redirect_to).
HttpResponseRedirect(redirect_to) ==
    [cls |-> "HttpResponseRedirect", status_code |-> 302,
     headers |-> ("location" :> iri_to_uri(redirect_to)), content |-> <<>>]

\* django.http.HttpResponsePermanentRedirect: 301.
HttpResponsePermanentRedirect(redirect_to) ==
    [cls |-> "HttpResponsePermanentRedirect", status_code |-> 301,
     headers |-> ("location" :> iri_to_uri(redirect_to)), content |-> <<>>]

\* The responses a view or a later middleware hands to a response hook: a
\* plain HttpResponse of any status, or one of the subclasses with its own.
StatusCodes == {200, 301, 302, 403, 404, 500}

ViewResponses ==
    {HttpResponse("HttpResponse", st, c) : st \in StatusCodes, c \in {<<"page">>, <<"other">>}}
    \cup {HttpResponse("HttpResponseForbidden", 403, c) : c \in {<<"page">>, <<"other">>}}
    \cup {HttpResponse("HttpResponseNotFound", 404, c) : c \in {<<"page">>, <<"other">>}}
    \cup {HttpResponseRedirect(<<"/", "a">>), HttpResponsePermanentRedirect(<<"/", "a">>)}

\* How long a request path of the model is at most, in characters.
MaxPath == 3

\* Paths made of "/" and "a" that start with "/".
SlashPaths ==
    {p \in SeqUpTo({"/", "a"}, MaxPath) : p # <<>> /\ p[1] = "/"}

(***************************************************************************)
(* Forbidden403Middleware                                                  *)
(***************************************************************************)

\* kuma.core.views.handler403: the rendered 403 page for the request.
handler403(req) ==
    [cls |-> "HttpResponse", status_code |-> 403, headers |-> <<>>,
     content |-> <<"403.html", req.path>>]

Forbidden403Middleware_process_response ==
    /\ pc = "forbidden403"
    /\ calls = <<>>
    /\ result' = IF response.cls = "HttpResponseForbidden"
                 THEN handler403(request)
                 ELSE response
    /\ entry' = response
    /\ calls' = Append(calls, "Forbidden403Middleware")
    /\ UNCHANGED <<request, response, pc, settings, url_prefixer, translation>>

InitForbidden ==
    /\ pc = "forbidden403"
    /\ request \in [path : SlashPaths]
    /\ response \in ViewResponses
    /\ entry = response
    /\ result = response
    /\ calls = <<>>
    /\ settings = Settings
    /\ url_prefixer = None
    /\ translation = NoTranslation

NextForbidden == Forbidden403Middleware_process_response

SpecForbidden == InitForbidden /\ [][NextForbidden]_vars

(***************************************************************************)
(* RemoveSlashMiddleware                                                   *)
(***************************************************************************)

\* How long a query string of the model is at most, in characters.
MaxQuery == 2

\* urlresolvers.resolve(path, urlconf) succeeds; the urlconf of the model is
\* the set of paths that resolve.
is_valid_path(req, path) == path \in req.urlconf

\* The request after a with safe_query_string(request) block: inside the
\* block QUERY_STRING is iri_to_uri of its value, afterwards the value is back.
safe_query_string(req, inside) ==
    LET qs == req.META.QUERY_STRING
        within == [req EXCEPT !.META.QUERY_STRING = iri_to_uri(qs)]
    IN  IF inside THEN within ELSE [within EXCEPT !.META.QUERY_STRING = qs]

\* RemoveSlashMiddleware's condition without the test for a 404.
RemoveSlash_applies_any_status(req, resp) ==
    /\ endswith(req.path_info, "/")
    /\ ~is_valid_path(req, req.path_info)
    /\ is_valid_path(req, ButLast(req.path_info))

RemoveSlash_applies(req, resp) ==
    /\ resp.status_code = 404
    /\ endswith(req.path_info, "/")
    /\ ~is_valid_path(req, req.path_info)
    /\ is_valid_path(req, ButLast(req.path_info))

RemoveSlashMiddleware_process_response ==
    /\ pc = "remove_slash"
    /\ calls = <<>>
    /\ IF RemoveSlash_applies(request, response)
       THEN IF request.GET # <<>>
            THEN /\ result' = HttpResponsePermanentRedirect(
                                  ButLast(request.path) \o <<"?">>
                                  \o safe_query_string(request, TRUE).META.QUERY_STRING)
                 /\ request' = safe_query_string(request, FALSE)
            ELSE /\ result' = HttpResponsePermanentRedirect(ButLast(request.path))
                 /\ request' = request
       ELSE /\ result' = response
            /\ request' = request
    /\ entry' = [request |-> request, response |-> response]
    /\ calls' = Append(calls, "RemoveSlashMiddleware")
    /\ UNCHANGED <<response, pc, settings, url_prefixer, translation>>

\* The requests that reach the hook: path is path_info, after a locale prefix
\* when LocaleURLMiddleware took one off; GET is parsed from QUERY_STRING; the
\* urlconf says which of the two paths the hook asks about resolve.
SlashRequests ==
    UNION { [path : {prefix \o pi : prefix \in {<<>>, <<"/", "fr">>}},
             path_info : {pi},
             GET : {QueryDict(qs)},
             META : [QUERY_STRING : {qs}],
             urlconf : SUBSET ({pi, ButLast(pi)} \ {<<>>})]
            : pi \in SlashPaths, qs \in SeqUpTo({"a", "&", NonAscii}, MaxQuery) }

SlashResponses ==
    {r \in ViewResponses : r.content # <<"other">> /\ r.status_code \in {200, 301, 404}}

InitSlash ==
    /\ pc = "remove_slash"
    /\ request \in SlashRequests
    /\ response \in SlashResponses
    /\ entry = [request |-> request, response |-> response]
    /\ result = response
    /\ calls = <<>>
    /\ settings = Settings
    /\ url_prefixer = None
    /\ translation = NoTranslation

NextSlash == RemoveSlashMiddleware_process_response

SpecSlash == InitSlash /\ [][NextSlash]_vars

(***************************************************************************)
(* The request hooks: LegacyDomainRedirectsMiddleware,                     *)
(* RestrictedWhiteNoiseMiddleware and RestrictedEndpointsMiddleware        *)
(***************************************************************************)

Range(s) == {s[i] : i \in 1..Len(s)}

\* HttpRequest.get_full_path: the escaped path, then "?" and the escaped
\* query string when there is one.
get_full_path(req) ==
    quote(req.path)
    \o (IF req.META.QUERY_STRING # <<>>
        THEN <<"?">> \o iri_to_uri(req.META.QUERY_STRING)
        ELSE <<>>)

\* urlparse.urljoin(base, url) for a base of scheme and host and a url that
\* starts with "/": a url that starts with "//" names its own host, which
\* runs up to the next "/", "?" or "#"; the result is written out as text.
urljoin(base, url) ==
    LET own == Len(url) >= 2 /\ url[1] = "/" /\ url[2] = "/"
        after == IF own THEN SubSeq(url, 3, Len(url)) ELSE <<>>
        stop == find(after, {"/", "?", "#"})
        netloc == IF ~own THEN <<>>
                  ELSE IF stop = 0 THEN after ELSE SubSeq(after, 1, stop - 1)
        path == IF ~own THEN url
                ELSE IF stop = 0 THEN <<>> ELSE SubSeq(after, stop, Len(after))
    IN  <<base.scheme, ":", "/", "/">>
        \o (IF netloc # <<>> THEN netloc ELSE base.netloc)
        \o path

\* kuma.core.utils.is_untrusted: the request came in on the attachment host.
is_untrusted(req) == req.host = settings.ATTACHMENT_HOST

\* The files WhiteNoise serves.
STATIC_FILES == {<<"/", "a">>}

\* whitenoise.middleware.WhiteNoiseMiddleware.process_request
WhiteNoiseMiddleware_process_request(req) ==
    IF req.path \in STATIC_FILES
    THEN HttpResponse("WhiteNoiseFileResponse", 200, <<"static", req.path>>)
    ELSE None

\* A request hook that returned a response ends the request phase.
after_hook(returned) == IF returned = None THEN "request" ELSE "responded"

LegacyRedirect(req) ==
    HttpResponsePermanentRedirect(urljoin(settings.SITE_URL, get_full_path(req)))

LegacyDomainRedirectsMiddleware_process_request ==
    /\ pc = "request"
    /\ "LegacyDomainRedirectsMiddleware" \notin Range(calls)
    /\ result' = IF request.host \in settings.LEGACY_HOSTS
                 THEN LegacyRedirect(request)
                 ELSE None
    /\ pc' = after_hook(result')
    /\ entry' = request
    /\ calls' = Append(calls, "LegacyDomainRedirectsMiddleware")
    /\ UNCHANGED <<request, response, settings, url_prefixer, translation>>

\* RestrictedEndpointsMiddleware's test without the settings switch.
restricted_always(req) == is_untrusted(req)

restricted(req) == settings.ENABLE_RESTRICTIONS_BY_HOST /\ is_untrusted(req)

RestrictedEndpointsMiddleware_process_request ==
    /\ pc = "request"
    /\ "RestrictedEndpointsMiddleware" \notin Range(calls)
    /\ request' = IF restricted(request)
                  THEN [request EXCEPT !.urlconf = "kuma.urls_untrusted"]
                  ELSE request
    /\ result' = None
    /\ entry' = request
    /\ calls' = Append(calls, "RestrictedEndpointsMiddleware")
    /\ UNCHANGED <<response, pc, settings, url_prefixer, translation>>

RestrictedWhiteNoiseMiddleware_process_request ==
    /\ pc = "request"
    /\ "RestrictedWhiteNoiseMiddleware" \notin Range(calls)
    /\ IF restricted(request)
       THEN /\ result' = None
            /\ calls' = Append(calls, "RestrictedWhiteNoiseMiddleware")
       ELSE /\ result' = WhiteNoiseMiddleware_process_request(request)
            /\ calls' = calls \o <<"RestrictedWhiteNoiseMiddleware", "WhiteNoiseMiddleware">>
    /\ pc' = after_hook(result')
    /\ entry' = request
    /\ UNCHANGED <<request, response, settings, url_prefixer, translation>>

Hosts == {"developer.mozilla.org", "developer.mozilla.com", "mdn.mozillademos.org"}

\* urlconf is "unset" while the request has no such attribute.
HookRequests ==
    [host : Hosts,
     path : SlashPaths,
     META : [QUERY_STRING : {<<>>, <<"a">>, <<NonAscii>>}],
     urlconf : {"unset", "kuma.urls_other"}]

InitRequest ==
    /\ pc = "request"
    /\ request \in HookRequests
    /\ response = None
    /\ entry = request
    /\ result = None
    /\ calls = <<>>
    /\ settings \in {[Settings EXCEPT !.ENABLE_RESTRICTIONS_BY_HOST = b] : b \in BOOLEAN}
    /\ url_prefixer = None
    /\ translation = NoTranslation

NextRequest ==
    \/ LegacyDomainRedirectsMiddleware_process_request
    \/ RestrictedEndpointsMiddleware_process_request
    \/ RestrictedWhiteNoiseMiddleware_process_request

SpecRequest == InitRequest /\ [][NextRequest]_vars

(***************************************************************************)
(* LocaleURLMiddleware.  A path is a sequence of "/" and of words (a       *)
(* language code, a path segment); a query string is a sequence of names,  *)
(* values, "=" and "&".                                                    *)
(***************************************************************************)

\* How long a request path is at most, in "/" and words.
MaxLocalePath == 3

\* How many parameters a query string has at most.
MaxParams == 3

\* How many requests a client makes in a row by following redirects.
MaxHops == 3

\* s.lower()
Lower(s) == [i \in 1..Len(s) |-> lower(s[i])]

RECURSIVE urlencode(_)
\* urllib.urlencode of a sequence of (name, value) pairs.
urlencode(pairs) ==
    IF pairs = <<>> THEN <<>>
    ELSE quote(pairs[1][1]) \o <<"=">> \o quote(pairs[1][2])
         \o (IF Len(pairs) > 1 THEN <<"&">> \o urlencode(Tail(pairs)) ELSE <<>>)

\* QueryDict.get(key, default): the last value given for the key.
QueryDict_get(GET, key, default) ==
    IF \E i \in 1..Len(GET) : GET[i][1] = key
    THEN GET[CHOOSE i \in 1..Len(GET) :
                 GET[i][1] = key /\ \A j \in (i + 1)..Len(GET) : GET[j][1] # key][2]
    ELSE default

\* kuma.core.urlresolvers.split_path: (locale, path); the locale is empty
\* when the first segment is not a language of LANGUAGE_URL_MAP.
split_path(path) ==
    LET stripped == lstrip(path, "/")
        parts == partition(stripped, "/")
        lang == Lower(parts.first)
    IN  IF lang \in DOMAIN settings.LANGUAGE_URL_MAP
        THEN [locale |-> settings.LANGUAGE_URL_MAP[lang], path |-> parts.rest]
        ELSE [locale |-> <<>>, path |-> stripped]

\* kuma.core.urlresolvers.Prefixer(request)
Prefixer(req) ==
    LET sp == split_path(req.path_info)
    IN  [locale |-> sp.locale, shortened_path |-> sp.path]

\* Prefixer.get_language: the lang parameter, else Accept-Language, else the
\* default language.
get_language(req) ==
    LET lang == Lower(QueryDict_get(req.GET, <<"lang">>, <<>>))
        accept == Lower(req.META.HTTP_ACCEPT_LANGUAGE)
    IN  IF lang \in DOMAIN settings.LANGUAGE_URL_MAP
        THEN settings.LANGUAGE_URL_MAP[lang]
        ELSE IF accept \in DOMAIN settings.LANGUAGE_URL_MAP
        THEN settings.LANGUAGE_URL_MAP[accept]
        ELSE settings.LANGUAGE_CODE

\* Prefixer.fix(path): the path under its locale, or as it is when its first
\* segment is one of LANGUAGE_URL_IGNORED_PATHS.
fix(prefixer, req, path) ==
    LET stripped == lstrip(path, "/")
        locale == IF prefixer.locale # <<>> THEN prefixer.locale ELSE get_language(req)
    IN  IF partition(stripped, "/").first \notin settings.LANGUAGE_URL_IGNORED_PATHS
        THEN <<"/">> \o locale \o <<"/">> \o stripped
        ELSE <<"/">> \o stripped

RECURSIVE items(_)
\* The (key, value) pairs of a dict, in the order the dict gives them.
items(dict) ==
    IF DOMAIN dict = {} THEN <<>>
    ELSE LET k == CHOOSE key \in DOMAIN dict : TRUE
         IN  <<<<k, dict[k]>>>> \o items([key \in (DOMAIN dict) \ {k} |-> dict[key]])

\* kuma.core.utils.urlparams(url, **query): the url with the query
\* parameters added.
urlparams(url, query) ==
    IF DOMAIN query = {} THEN url ELSE url \o <<"?">> \o urlencode(items(query))

\* The dict of the parameters other than lang, built from
\* request.GET.iteritems(), which gives each key once, with its last value.
query_without_lang(GET) ==
    [k \in {GET[i][1] : i \in 1..Len(GET)} \ {<<"lang">>} |-> QueryDict_get(GET, k, <<>>)]

\* The thread-local that set_url_prefixer sets.
set_url_prefixer(prefixer) == prefixer

\* translation.activate with the locale of the path alone.
activate_locale_only(prefixer, active) ==
    IF prefixer.locale # <<>> THEN prefixer.locale ELSE active

\* The translation active after
\* translation.activate(prefixer.locale or settings.LANGUAGE_CODE).
activate(prefixer, active) ==
    IF prefixer.locale # <<>> THEN prefixer.locale ELSE settings.LANGUAGE_CODE

\* The redirect to the path under its locale (lines 53 to 67).
locale_redirect(prefixer, req, full_path) ==
    LET query_string == req.META.QUERY_STRING
        quoted == quote(full_path)
        target == IF query_string # <<>> THEN quoted \o <<"?">> \o query_string ELSE quoted
        redirect == HttpResponseRedirect(target)
        old_locale == prefixer.locale
        new_locale == split_path(target).locale
    IN  IF old_locale # new_locale
        THEN set_header(redirect, "vary", <<"Accept-Language">>)
        ELSE redirect

LocaleURLMiddleware_process_request ==
    /\ pc = "process_request"
    /\ LET prefixer == Prefixer(request)
           full_path == fix(prefixer, request, prefixer.shortened_path)
           lang == QueryDict_get(request.GET, <<"lang">>, Absent)
       IN  IF lang \in settings.LANGUAGES
           THEN LET blanked == [prefixer EXCEPT !.locale = <<>>]
                    new_path == fix(blanked, request, blanked.shortened_path)
                    query == query_without_lang(request.GET)
                IN  /\ url_prefixer' = set_url_prefixer(blanked)
                    /\ result' = HttpResponseRedirect(urlparams(new_path, query))
                    /\ response' = result'
                    /\ pc' = "process_response"
                    /\ calls' = Append(calls, "lang")
                    /\ UNCHANGED <<request, translation>>
           ELSE IF full_path # request.path
           THEN /\ url_prefixer' = set_url_prefixer(prefixer)
                /\ result' = locale_redirect(prefixer, request, full_path)
                /\ response' = result'
                /\ pc' = "process_response"
                /\ calls' = Append(calls, "redirect")
                /\ UNCHANGED <<request, translation>>
           ELSE /\ url_prefixer' = set_url_prefixer(prefixer)
                /\ request' = [request EXCEPT
                                  !.path_info = <<"/">> \o prefixer.shortened_path,
                                  !.LANGUAGE_CODE = IF prefixer.locale # <<>>
                                                    THEN prefixer.locale
                                                    ELSE settings.LANGUAGE_CODE]
                /\ translation' = activate(prefixer, translation)
                /\ result' = None
                /\ pc' = "view"
                /\ calls' = Append(calls, "pass")
                /\ UNCHANGED response
    /\ entry' = [request |-> request, translation |-> translation]
    /\ UNCHANGED settings

\* process_response that forgets the thread-local.
LocaleURLMiddleware_process_response_keeps ==
    /\ pc = "process_response"
    /\ result' = response
    /\ pc' = "done"
    /\ UNCHANGED <<request, response, entry, calls, settings, url_prefixer, translation>>

LocaleURLMiddleware_process_response ==
    /\ pc = "process_response"
    /\ url_prefixer' = set_url_prefixer(None)
    /\ result' = response
    /\ pc' = "done"
    /\ UNCHANGED <<request, response, entry, calls, settings, translation>>

LocaleURLMiddleware_process_exception ==
    /\ pc = "process_exception"
    /\ url_prefixer' = set_url_prefixer(None)
    /\ pc' = "excepted"
    /\ UNCHANGED <<request, response, result, entry, calls, settings, translation>>

(***************************************************************************)
(* The handler around the hooks (django.core.handlers.base) and the client *)
(***************************************************************************)

LocaleWords == {"/", "fr", "en-us", "docs", "media"}

LocalePaths ==
    {p \in SeqUpTo(LocaleWords, MaxLocalePath) : p # <<>> /\ p[1] = "/"}

QueryParams == {<<"lang", "fr">>, <<"lang", "xx">>, <<"a", "1">>, <<"a", "2">>}

\* The query strings of up to MaxParams parameters.
QueryStrings ==
    { urlencode([i \in 1..Len(ps) |-> <<<<ps[i][1]>>, <<ps[i][2]>>>>])
      : ps \in SeqUpTo(QueryParams, MaxParams) }

\* The request a server builds for a path and query string.
WSGIRequest(path, query_string, accept_language) ==
    [path |-> path, path_info |-> path,
     GET |-> QueryDict(query_string),
     META |-> [QUERY_STRING |-> query_string, HTTP_ACCEPT_LANGUAGE |-> accept_language],
     LANGUAGE_CODE |-> <<"unset">>]

\* The requests of the model come without an Accept-Language header.
LocaleRequests ==
    {WSGIRequest(p, qs, <<>>) : p \in LocalePaths, qs \in QueryStrings}

\* A request arrives on the thread.
handle_request ==
    /\ pc = "idle"
    /\ request' \in LocaleRequests
    /\ pc' = "process_request"
    /\ UNCHANGED <<response, result, entry, calls, settings, url_prefixer, translation>>

\* The view returns a response.
view_returns ==
    /\ pc = "view"
    /\ response' \in {HttpResponse("HttpResponse", 200, <<"page">>),
                      HttpResponse("HttpResponseNotFound", 404, <<"page">>)}
    /\ pc' = "process_response"
    /\ UNCHANGED <<request, result, entry, calls, settings, url_prefixer, translation>>

\* The view raises: the handler calls the process_exception hooks.
view_raises ==
    /\ pc = "view"
    /\ pc' = "process_exception"
    /\ UNCHANGED <<request, response, result, entry, calls, settings, url_prefixer, translation>>

\* No hook handled the exception: the handler makes a 500 response of it and
\* runs the response hooks.
exception_to_response ==
    /\ pc = "excepted"
    /\ response' = HttpResponse("HttpResponseServerError", 500, <<"page">>)
    /\ pc' = "process_response"
    /\ UNCHANGED <<request, result, entry, calls, settings, url_prefixer, translation>>

\* With DEBUG_PROPAGATE_EXCEPTIONS the exception leaves the handler; the
\* request and what was made for it are dropped, the thread-locals stay.
exception_propagates ==
    /\ pc = "excepted"
    /\ pc' = "idle"
    /\ request' = None
    /\ response' = None
    /\ result' = None
    /\ entry' = None
    /\ calls' = <<>>
    /\ UNCHANGED <<settings, url_prefixer, translation>>

\* The client follows a redirect: the next request is for the Location.
follow_redirect ==
    /\ pc = "done"
    /\ Len(calls) < MaxHops
    /\ has_header(result, "location")
    /\ result.status_code \in {301, 302}
    /\ LET location == partition(result.headers["location"], "?")
       IN  request' = WSGIRequest(unquote(location.first), location.rest,
                                  request.META.HTTP_ACCEPT_LANGUAGE)
    /\ response' = None
    /\ result' = None
    /\ pc' = "process_request"
    /\ UNCHANGED <<entry, calls, settings, url_prefixer, translation>>

\* The handling of the request is over: the request and what was made for
\* it are dropped, the thread-locals stay.
finish ==
    /\ pc = "done"
    /\ pc' = "idle"
    /\ request' = None
    /\ response' = None
    /\ result' = None
    /\ entry' = None
    /\ calls' = <<>>
    /\ UNCHANGED <<settings, url_prefixer, translation>>

InitLocale ==
    /\ pc = "idle"
    /\ request = None
    /\ response = None
    /\ result = None
    /\ entry = None
    /\ calls = <<>>
    /\ settings = Settings
    /\ url_prefixer = None
    /\ translation = NoTranslation

NextLocale ==
    \/ handle_request
    \/ LocaleURLMiddleware_process_request
    \/ view_returns
    \/ view_raises
    \/ LocaleURLMiddleware_process_exception
    \/ exception_to_response
    \/ exception_propagates
    \/ LocaleURLMiddleware_process_response
    \/ follow_redirect
    \/ finish

SpecLocale == InitLocale /\ [][NextLocale]_vars

(***************************************************************************)
(* Properties of the compression middleware                                *)
(***************************************************************************)

RECURSIVE int(_)
\* The number a sequence of decimal digits writes.
int(digits) ==
    IF digits = <<>> THEN 0
    ELSE 10 * int(SubSeq(digits, 1, Len(digits) - 1))
         + (CHOOSE d \in 0..9 : Digits[d + 1] = digits[Len(digits)])

\* C3: GZipMiddleware.process_response returns what Django's GZipMiddleware
\* returns except for the ETag: a response that carried an ETag on entry
\* carries exactly that value on return, compressed or not, and a response
\* without an ETag gets none.
C3_ETagUntouched ==
    calls # <<>> =>
        /\ has_header(entry, "etag") =>
               /\ has_header(result, "etag")
               /\ result.headers["etag"] = entry.headers["etag"]
        /\ ~has_header(entry, "etag") => ~has_header(result, "etag")
        /\ \E next \in Lens :
               del_header(result, "etag")
                 = del_header(django_GZipMiddleware_response(request, entry, next), "etag")

\* A response with a quoted ETag has been gzip-compressed.
C3_Witness ==
    /\ pc = "gzip" /\ Len(calls) = 1
    /\ has_header(entry, "etag")
    /\ entry.headers["etag"] = <<Quote, "a", Quote>>
    /\ has_header(result, "content-encoding")
    /\ result.headers["content-encoding"] = "gzip"
    /\ result.content.codings = <<"gzip">>

\* The conditions under which BrotliMiddleware leaves a response alone.
BrotliSkips(req, resp) ==
    \/ resp.streaming
    \/ has_header(resp, "content-encoding")
    \/ ~re_search_word(<<"b", "r">>, req.HTTP_ACCEPT_ENCODING)
    \/ resp.content.len < 200
    \/ resp.content.packed >= resp.content.len

\* C4: BrotliMiddleware.process_response returns the response unmodified when
\* it is streaming, already has a Content-Encoding, the client does not accept
\* br as a whole word, the body is shorter than 200 bytes or Brotli does not
\* make it strictly shorter; and a second application changes nothing.
C4_SkipUnmodified ==
    /\ (calls # <<>> /\ BrotliSkips(request, entry)) => (response = entry /\ result = entry)
    /\ Len(calls) >= 2 => (response = entry /\ result = entry)

\* The middleware ran again on a response it had compressed.
C4_Witness ==
    /\ pc = "brotli" /\ Len(calls) >= 2
    /\ entry.content.codings = <<"br">>
    /\ entry.headers["content-encoding"] = "br"
    /\ entry.content.packed < entry.content.len
    /\ response = entry

\* C9: when BrotliMiddleware.process_response changes the body, the new body
\* is strictly shorter, Content-Encoding is br, Content-Length is the decimal
\* length of the new body and Vary includes Accept-Encoding; the body never
\* grows, and br is set only on a body this middleware compressed.
C9_CompressedResponse ==
    calls # <<>> =>
        /\ result.content # entry.content =>
               /\ result.content.len < entry.content.len
               /\ has_header(result, "content-encoding")
               /\ result.headers["content-encoding"] = "br"
               /\ has_header(result, "content-length")
               /\ int(result.headers["content-length"]) = result.content.len
               /\ has_header(result, "vary")
               /\ \E i \in 1..Len(result.headers["vary"]) :
                      lower(result.headers["vary"][i]) = "accept-encoding"
        /\ result.content.len <= entry.content.len
        /\ ( /\ has_header(result, "content-encoding")
             /\ result.headers["content-encoding"] = "br"
             /\ ~(has_header(entry, "content-encoding")
                  /\ entry.headers["content-encoding"] = "br") )
           => result.content.codings = Append(entry.content.codings, "br")

\* A body of at least 200 bytes was replaced by its shorter Brotli encoding.
C9_Witness ==
    /\ pc = "brotli" /\ Len(calls) = 1
    /\ result.content.codings = <<"br">>
    /\ entry.content.codings = <<>>
    /\ has_header(entry, "vary")
    /\ result.headers["content-length"] = str(result.content.len)

(***************************************************************************)
(* Properties of Forbidden403Middleware and RemoveSlashMiddleware          *)
(***************************************************************************)

\* C5: Forbidden403Middleware.process_response returns handler403(request)
\* for every response whose status_code is 403 and returns every other
\* response unmodified.
C5_Renders403ByStatus ==
    (pc = "forbidden403" /\ calls # <<>>) =>
        /\ entry.status_code = 403 => result = handler403(request)
        /\ entry.status_code # 403 => result = entry

\* C6: RemoveSlashMiddleware.process_response returns a new 301 redirect
\* exactly when the response is a 404, path_info ends with "/", path_info does
\* not resolve and path_info without its last character does; the target is
\* request.path without its last character, then "?" and the URI-escaped
\* query string when the request has GET parameters; otherwise the response
\* is returned unchanged; QUERY_STRING has its original value afterwards.
C6_RemoveSlash ==
    (pc = "remove_slash" /\ calls # <<>>) =>
        LET req == entry.request
            applies ==
                /\ entry.response.status_code = 404
                /\ req.path_info[Len(req.path_info)] = "/"
                /\ req.path_info \notin req.urlconf
                /\ ButLast(req.path_info) \in req.urlconf
            target ==
                ButLast(req.path)
                \o (IF req.GET # <<>>
                    THEN <<"?">> \o iri_to_uri(req.META.QUERY_STRING)
                    ELSE <<>>)
        IN  /\ applies =>
                 /\ result.cls = "HttpResponsePermanentRedirect"
                 /\ result.status_code = 301
                 /\ result.headers["location"] = target
            /\ ~applies => result = entry.response
            /\ (result # entry.response) <=> applies
            /\ request.META.QUERY_STRING = req.META.QUERY_STRING
            /\ response = entry.response

\* A 404 for /a/ was redirected to /a with a query string that needed escaping.
C6_Witness ==
    /\ pc = "remove_slash" /\ calls # <<>>
    /\ entry.request.path_info = <<"/", "a", "/">>
    /\ entry.request.META.QUERY_STRING = <<"a", NonAscii>>
    /\ result.status_code = 301
    /\ has_header(result, "location")
    /\ result.headers["location"] = <<"/", "fr", "/", "a", "?", "a", PercentEncoded>>

(***************************************************************************)
(* Properties of the request hooks                                         *)
(***************************************************************************)

\* The scheme and host of settings.SITE_URL, as the start of a URL.
SiteOrigin == <<"https", ":", "/", "/", "developer.mozilla.org">>

\* C7: LegacyDomainRedirectsMiddleware.process_request returns, for every
\* request on a legacy host and every request path, a 301 redirect whose
\* Location is on the host of SITE_URL and keeps the full path and query
\* string; for any other host it returns None.
C7_LegacyRedirectStaysOnSite ==
    (calls # <<>> /\ calls[Len(calls)] = "LegacyDomainRedirectsMiddleware") =>
        IF entry.host \in Settings.LEGACY_HOSTS
        THEN /\ result.status_code = 301
             /\ result.headers["location"] = SiteOrigin \o get_full_path(entry)
        ELSE result = None

\* C8: with ENABLE_RESTRICTIONS_BY_HOST on and an untrusted request,
\* RestrictedEndpointsMiddleware sets request.urlconf to kuma.urls_untrusted
\* and RestrictedWhiteNoiseMiddleware returns None without calling WhiteNoise;
\* otherwise urlconf is left as it was and the WhiteNoise result is returned.
C8_HostRestriction ==
    LET on == settings.ENABLE_RESTRICTIONS_BY_HOST
              /\ entry.host = Settings.ATTACHMENT_HOST
        last == calls[Len(calls)]
    IN  calls # <<>> =>
          /\ last = "RestrictedEndpointsMiddleware" =>
                /\ on => request = [entry EXCEPT !.urlconf = "kuma.urls_untrusted"]
                /\ ~on => request = entry
          /\ last = "RestrictedWhiteNoiseMiddleware" => (on /\ result = None)
          /\ last = "WhiteNoiseMiddleware" =>
                /\ ~on
                /\ calls[Len(calls) - 1] = "RestrictedWhiteNoiseMiddleware"
                /\ result = WhiteNoiseMiddleware_process_request(entry)
                /\ request = entry

\* An untrusted request for a static file got no file and the untrusted urlconf.
C8_Witness ==
    /\ pc = "request"
    /\ calls = <<"RestrictedWhiteNoiseMiddleware", "RestrictedEndpointsMiddleware">>
    /\ settings.ENABLE_RESTRICTIONS_BY_HOST
    /\ request.host = "mdn.mozillademos.org"
    /\ request.path \in STATIC_FILES
    /\ entry.urlconf = "kuma.urls_other"
    /\ request.urlconf = "kuma.urls_untrusted"

(***************************************************************************)
(* Properties of LocaleURLMiddleware                                       *)
(***************************************************************************)

\* The parameters of the query string of a redirect's Location.
LocationParams(resp) == QueryDict(partition(resp.headers["location"], "?").rest)

\* The path of a redirect's Location, decoded.
LocationPath(resp) == unquote(partition(resp.headers["location"], "?").first)

\* process_request has just returned, by the branch named.
Returned(branch) ==
    /\ calls # <<>>
    /\ calls[Len(calls)] = branch
    /\ pc = IF branch = "pass" THEN "view" ELSE "process_response"

\* C1: for every request whose lang parameter is a key of LANGUAGES,
\* process_request returns a 302 redirect whose query string holds every
\* original parameter except lang, and the request made by following the
\* redirect does not take the lang branch again.
C1_LangRedirectKeepsParams ==
    /\ Returned("lang") =>
          /\ result.status_code = 302
          /\ \A i \in 1..Len(entry.request.GET) :
                entry.request.GET[i][1] # <<"lang">>
                    => entry.request.GET[i] \in Range(LocationParams(result))
          /\ \A j \in 1..Len(LocationParams(result)) :
                LocationParams(result)[j][1] # <<"lang">>
    /\ \A i \in 1..(Len(calls) - 1) : calls[i] = "lang" => calls[i + 1] # "lang"

\* The part of C1 about the redirect loop alone: a lang redirect is a 302
\* without a lang parameter, with the last value of every other parameter,
\* and no chain of followed redirects takes the lang branch twice.
C1_NoLangLoop ==
    /\ Returned("lang") =>
          /\ result.status_code = 302
          /\ \A i \in 1..Len(entry.request.GET) :
                LET k == entry.request.GET[i][1]
                IN  k # <<"lang">>
                    => <<k, QueryDict_get(entry.request.GET, k, Absent)>>
                          \in Range(LocationParams(result))
          /\ \A j \in 1..Len(LocationParams(result)) :
                LocationParams(result)[j][1] # <<"lang">>
    /\ Cardinality({i \in 1..Len(calls) : calls[i] = "lang"}) <= 1
    /\ Len(calls) <= 2

\* C2: the thread-local prefixer set in process_request is None when the
\* handling of the request ends, through process_response (also for a
\* redirect made by process_request) or through process_exception, so no
\* request starts with the prefixer of an earlier request set.
C2_PrefixerUnset ==
    /\ pc \in {"done", "excepted", "idle", "process_request"} => url_prefixer = None
    /\ pc \in {"view", "process_exception", "process_response"}
          /\ response = None => url_prefixer # None

\* The redirect that process_request made for a lang parameter has gone
\* through process_response.
C2_Witness ==
    /\ pc = "done"
    /\ calls = <<"lang">>
    /\ result.status_code = 302
    /\ url_prefixer = None

\* C10: a request that is not redirected gets path_info "/" and the
\* locale-stripped path, LANGUAGE_CODE the locale of the path or else
\* settings.LANGUAGE_CODE, and that code as the active translation, whatever
\* an earlier request activated; a request whose locale-fixed path differs
\* from its path gets a 302 to the fixed path with the query string
\* appended, with Vary: Accept-Language exactly when the locale of the
\* target differs from the locale of the requested path.
C10_PassAndRedirect ==
    /\ Returned("pass") =>
          LET sp == split_path(entry.request.path_info)
              code == IF sp.locale # <<>> THEN sp.locale ELSE Settings.LANGUAGE_CODE
          IN  /\ request.path_info = <<"/">> \o sp.path
              /\ request.LANGUAGE_CODE = code
              /\ translation = code
              /\ code \in Settings.LANGUAGES
              /\ result = None
    /\ Returned("redirect") =>
          LET req == entry.request
              sp == split_path(req.path_info)
              fixed == fix([locale |-> sp.locale, shortened_path |-> sp.path], req, sp.path)
          IN  /\ fixed # req.path
              /\ result.status_code = 302
              /\ LocationPath(result) = fixed
              /\ partition(result.headers["location"], "?").rest = req.META.QUERY_STRING
              /\ (req.META.QUERY_STRING = <<>>)
                    <=> (find(result.headers["location"], {"?"}) = 0)
              /\ has_header(result, "vary")
                    <=> split_path(LocationPath(result)).locale # sp.locale
              /\ has_header(result, "vary") => result.headers["vary"] = <<"Accept-Language">>
              /\ translation = entry.translation
    /\ pc = "view" => translation = request.LANGUAGE_CODE

\* A request for a path without a locale runs under the default language
\* on a thread whose earlier request had activated French.
C10_Witness ==
    /\ Returned("pass")
    /\ entry.translation = <<"fr">>
    /\ entry.request.path = <<"/", "media">>
    /\ translation = <<"en-US">>
    /\ request.path_info = <<"/", "media">>

\* A request for a lower-case locale was redirected without Vary, and one
\* without a locale with Vary.
C10_WitnessRedirect ==
    /\ Returned("redirect")
    /\ entry.request.path = <<"/", "en-us", "/">>
    /\ has_header(result, "location")
    /\ result.headers["location"] = <<"/", "en-US", "/", "?", "a", "=", "1">>
    /\ ~has_header(result, "vary")

====
